---- MODULE Spec2Model ----
(***************************************************************************)
(* Markdown Diff Block Generator (src/src/App.tsx).                        *)
(*                                                                         *)
(* A text is a sequence of one-character strings; NL is the newline.  The  *)
(* model follows the App component: the two editor texts, the memoized     *)
(* resultText computed from diffLines(originText, changedText), and the    *)
(* copyToClipboard handler.  diffLines is the line differ of the npm       *)
(* package `diff` (imported at App.tsx:19): it tokenizes each text into    *)
(* lines that KEEP their terminating newline and runs Myers' O(ND) search  *)
(* over the two token sequences.                                           *)
(***************************************************************************)
EXTENDS Integers, Sequences, FiniteSets, TLC

NL == "\n"

\* The backquote character of the code fence (a string of the module cannot
\* hold the character itself).
BACKTICK == "BACKTICK"

\* ------------------------------------------------------------------ bounds
\* A typed text has at most MaxLines lines, each drawn from LineChoices.
MaxLines == 3

LineChoices == { <<>>, <<"a">>, <<"b">> }

\* A pane's scroll position is << left, top >> with both in 0 .. MaxScroll.
MaxScroll == 1

\* ------------------------------------------------------------ string tools
Min(a, b) == IF a < b THEN a ELSE b

Max(a, b) == IF a > b THEN a ELSE b

RECURSIVE Concat(_)
\* Concatenation of a sequence of strings (Array.prototype.join with '').
Concat(ss) == IF ss = <<>> THEN <<>> ELSE Head(ss) \o Concat(Tail(ss))

RECURSIVE JoinWith(_, _)
\* Array.prototype.join(sep).
JoinWith(ss, sep) ==
  IF ss = <<>> THEN <<>>
  ELSE IF Len(ss) = 1 THEN Head(ss)
  ELSE Head(ss) \o sep \o JoinWith(Tail(ss), sep)

RECURSIVE SplitFrom(_, _)
\* s.split('\n') continued with `cur` the characters of the piece being read.
SplitFrom(s, cur) ==
  IF s = <<>> THEN << cur >>
  ELSE IF Head(s) = NL THEN << cur >> \o SplitFrom(Tail(s), <<>>)
  ELSE SplitFrom(Tail(s), Append(cur, Head(s)))

\* String.prototype.split('\n'): always at least one piece.
Split(s) == SplitFrom(s, <<>>)

RECURSIVE SplitCaptureFrom(_, _)
\* value.split(/(\n|\r\n)/): the pieces and the separators, alternating.
SplitCaptureFrom(s, cur) ==
  IF s = <<>> THEN << cur >>
  ELSE IF Head(s) = NL THEN << cur, << NL >> >> \o SplitCaptureFrom(Tail(s), <<>>)
  ELSE SplitCaptureFrom(Tail(s), Append(cur, Head(s)))

SplitCapture(s) == SplitCaptureFrom(s, <<>>)

\* Array.prototype.slice(0, -1).
DropLast(ss) == IF ss = <<>> THEN <<>> ELSE SubSeq(ss, 1, Len(ss) - 1)

\* ----------------------------------------------------- diffLines: tokenize
RECURSIVE MergeTokens(_, _, _)
\* lineDiff.tokenize, the merge loop: element i (0-based) of linesAndNewlines
\* is a separator when i is odd and is appended to the token before it.
MergeTokens(linesAndNewlines, i, retLines) ==
  IF i >= Len(linesAndNewlines) THEN retLines
  ELSE LET line == linesAndNewlines[i + 1] IN
       IF i % 2 = 1
       THEN MergeTokens(linesAndNewlines, i + 1,
              [retLines EXCEPT ![Len(retLines)] = @ \o line])
       ELSE MergeTokens(linesAndNewlines, i + 1, Append(retLines, line))

\* lineDiff.tokenize: the final empty piece of a text ending in a newline is
\* dropped; every token but possibly the last ends with its newline.
Tokenize(value) ==
  LET all == SplitCapture(value)
      linesAndNewlines == IF all[Len(all)] = <<>> THEN DropLast(all) ELSE all
  IN MergeTokens(linesAndNewlines, 0, <<>>)

\* Diff.removeEmpty: falsy (empty) tokens are removed.
RemoveEmpty(tokens) == SelectSeq(tokens, LAMBDA t : t # <<>>)

\* ------------------------------------------------- diffLines: Myers search
\* A path of the search: the last old token consumed (0-based, -1 before
\* the first) and the components (runs of added / removed / common tokens)
\* that lead there.  NoPath is an empty slot of bestPath (undefined).
NoPath == [defined |-> FALSE, oldPos |-> 0, components |-> <<>>]

\* lineDiff.equals with the default options: exact equality of the tokens.
Equals(left, right) == left = right

\* Diff.addToPath: extend the last component when it is of the same kind,
\* else start a new one.
AddToPath(path, added, removed, oldPosInc) ==
  LET cs == path.components
      n  == Len(cs)
  IN IF n > 0 /\ cs[n].added = added /\ cs[n].removed = removed
     THEN [defined |-> TRUE, oldPos |-> path.oldPos + oldPosInc,
           components |-> [cs EXCEPT ![n].count = @ + 1]]
     ELSE [defined |-> TRUE, oldPos |-> path.oldPos + oldPosInc,
           components |-> Append(cs, [count |-> 1, added |-> added, removed |-> removed])]

RECURSIVE CommonCount(_, _, _, _)
\* Diff.extractCommon, the while loop: the length of the run of equal tokens
\* that follows (oldPos, newPos).
CommonCount(newString, oldString, oldPos, newPos) ==
  IF /\ newPos + 1 < Len(newString)
     /\ oldPos + 1 < Len(oldString)
     /\ Equals(oldString[oldPos + 2], newString[newPos + 2])
  THEN 1 + CommonCount(newString, oldString, oldPos + 1, newPos + 1)
  ELSE 0

\* Diff.extractCommon: follow the diagonal; returns the path and newPos.
ExtractCommon(basePath, newString, oldString, diagonalPath) ==
  LET oldPos == basePath.oldPos
      newPos == oldPos - diagonalPath
      commonCount == CommonCount(newString, oldString, oldPos, newPos)
  IN [path |-> [defined |-> TRUE, oldPos |-> oldPos + commonCount,
                components |->
                  IF commonCount > 0
                  THEN Append(basePath.components,
                         [count |-> commonCount, added |-> FALSE, removed |-> FALSE])
                  ELSE basePath.components],
      newPos |-> newPos + commonCount]

RECURSIVE ExecDiagonals(_, _, _, _, _, _, _)
\* execEditLength, the for loop over the diagonals of one edit length.
ExecDiagonals(newString, oldString, editLength, diagonalPath, bestPath, minD, maxD) ==
  IF diagonalPath > Min(maxD, editLength)
  THEN [done |-> FALSE, components |-> <<>>, bestPath |-> bestPath,
        minD |-> minD, maxD |-> maxD]
  ELSE
    LET newLen == Len(newString)
        oldLen == Len(oldString)
        removePath == bestPath[diagonalPath - 1]
        addPath == bestPath[diagonalPath + 1]
        cleared == IF removePath.defined
                   THEN [bestPath EXCEPT ![diagonalPath - 1] = NoPath]
                   ELSE bestPath
        addPathNewPos == addPath.oldPos - diagonalPath
        canAdd == addPath.defined /\ 0 <= addPathNewPos /\ addPathNewPos < newLen
        canRemove == removePath.defined /\ removePath.oldPos + 1 < oldLen
    IN IF ~canAdd /\ ~canRemove
       THEN ExecDiagonals(newString, oldString, editLength, diagonalPath + 2,
              [cleared EXCEPT ![diagonalPath] = NoPath], minD, maxD)
       ELSE
         LET branched == IF ~canRemove \/ (canAdd /\ removePath.oldPos < addPath.oldPos)
                         THEN AddToPath(addPath, TRUE, FALSE, 0)
                         ELSE AddToPath(removePath, FALSE, TRUE, 1)
             ext == ExtractCommon(branched, newString, oldString, diagonalPath)
             basePath == ext.path
             newPos == ext.newPos
         IN IF basePath.oldPos + 1 >= oldLen /\ newPos + 1 >= newLen
            THEN [done |-> TRUE, components |-> basePath.components,
                  bestPath |-> bestPath, minD |-> minD, maxD |-> maxD]
            ELSE ExecDiagonals(newString, oldString, editLength, diagonalPath + 2,
                   [cleared EXCEPT ![diagonalPath] = basePath],
                   IF newPos + 1 >= newLen THEN Max(minD, diagonalPath + 1) ELSE minD,
                   IF basePath.oldPos + 1 >= oldLen THEN Min(maxD, diagonalPath - 1) ELSE maxD)

RECURSIVE ExecEditLength(_, _, _, _, _, _)
\* The loop `while (editLength <= maxEditLength) execEditLength()`.
ExecEditLength(newString, oldString, editLength, bestPath, minD, maxD) ==
  IF editLength > Len(newString) + Len(oldString) THEN <<>>
  ELSE LET r == ExecDiagonals(newString, oldString, editLength,
                  Max(minD, -editLength), bestPath, minD, maxD)
       IN IF r.done THEN r.components
          ELSE ExecEditLength(newString, oldString, editLength + 1,
                 r.bestPath, r.minD, r.maxD)

RECURSIVE BuildValues(_, _, _, _, _)
\* buildValues: each component gets its text, the join of its tokens, taken
\* from the new tokens unless the component is a removal.
BuildValues(components, newString, oldString, newPos, oldPos) ==
  IF components = <<>> THEN <<>>
  ELSE LET c == Head(components) IN
       IF ~c.removed
       THEN << [value |-> Concat(SubSeq(newString, newPos + 1, newPos + c.count)),
                added |-> c.added, removed |-> FALSE, count |-> c.count] >>
            \o BuildValues(Tail(components), newString, oldString,
                 newPos + c.count, IF c.added THEN oldPos ELSE oldPos + c.count)
       ELSE << [value |-> Concat(SubSeq(oldString, oldPos + 1, oldPos + c.count)),
                added |-> FALSE, removed |-> TRUE, count |-> c.count] >>
            \o BuildValues(Tail(components), newString, oldString,
                 newPos, oldPos + c.count)

\* Diff.diff on two token sequences: the components of a shortest edit script.
DiffTokens(oldString, newString) ==
  LET newLen == Len(newString)
      oldLen == Len(oldString)
      far == newLen + oldLen + 2
      seed == ExtractCommon([defined |-> TRUE, oldPos |-> -1, components |-> <<>>],
                newString, oldString, 0)
  IN IF seed.path.oldPos + 1 >= oldLen /\ seed.newPos + 1 >= newLen
     THEN seed.path.components
     ELSE ExecEditLength(newString, oldString, 1,
            [d \in (0 - far) .. far |-> IF d = 0 THEN seed.path ELSE NoPath],
            0 - far, far)

\* diffLines(oldStr, newStr): the Change[] list (value, added, removed, count).
DiffLines(oldStr, newStr) ==
  LET oldString == RemoveEmpty(Tokenize(oldStr))
      newString == RemoveEmpty(Tokenize(newStr))
  IN BuildValues(DiffTokens(oldString, newString), newString, oldString, 0, 0)

\* ------------------------------------------------ App: resultText (useMemo)
\* const prefix = part.added ? '+ ' : part.removed ? '- ' : '  '
Prefix(part) ==
  IF part.added THEN << "+", " " >>
  ELSE IF part.removed THEN << "-", " " >>
  ELSE << " ", " " >>

\* relevantLines: part.value.split('\n') without its last piece when that
\* piece is empty.
RelevantLines(value) ==
  LET lines == Split(value)
  IN IF Len(lines) > 0 /\ lines[Len(lines)] = <<>> THEN DropLast(lines) ELSE lines

\* EmitLine with the exception for a hunk of one line forgotten: every empty
\* line is dropped.
EmitLineNoSingle(line, relevantLines) == line # <<>>

\* The test `line || relevantLines.length === 1` of the inner forEach.
EmitLine(line, relevantLines) == line # <<>> \/ Len(relevantLines) = 1

RECURSIVE RenderLines(_, _, _)
\* relevantLines.forEach(...): the text appended to diffResult for one part,
\* from the i-th line on.
RenderLines(prefix, relevantLines, i) ==
  IF i > Len(relevantLines) THEN <<>>
  ELSE (IF EmitLine(relevantLines[i], relevantLines)
        THEN prefix \o relevantLines[i] \o << NL >>
        ELSE <<>>)
       \o RenderLines(prefix, relevantLines, i + 1)

RECURSIVE RenderDiff(_)
\* diff.forEach(part => ...): diffResult after all the parts.
RenderDiff(parts) ==
  IF parts = <<>> THEN <<>>
  ELSE RenderLines(Prefix(Head(parts)), RelevantLines(Head(parts).value), 1)
       \o RenderDiff(Tail(parts))

\* The Change[] the memo computes; none when both texts are empty (the early
\* return comes before the call of diffLines).
DiffOf(origin, changed) ==
  IF origin = <<>> /\ changed = <<>> THEN <<>> ELSE DiffLines(origin, changed)

\* ResultText with the early return replaced by a shortcut for equal texts
\* that prefixes every piece of originText.split('\n') as unchanged.
ResultTextEqualShortcut(origin, changed) ==
  IF origin = changed
  THEN RenderLines(<< " ", " " >>, Split(origin), 1)
  ELSE RenderDiff(DiffLines(origin, changed))

\* resultText = useMemo(...): '' when both texts are empty, else the rendered
\* parts of diffLines(originText, changedText).
ResultText(origin, changed) ==
  IF origin = <<>> /\ changed = <<>> THEN <<>>
  ELSE RenderDiff(DiffLines(origin, changed))

\* copyToClipboard: the text handed to navigator.clipboard.writeText.
ClipboardText(textToCopy) ==
  << BACKTICK, BACKTICK, BACKTICK, "d", "i", "f", "f", NL >> \o textToCopy
    \o << NL, BACKTICK, BACKTICK, BACKTICK >>

\* ------------------------------------------------------------- the inputs
RECURSIVE LineSeqs(_)
\* The sequences of exactly n lines drawn from LineChoices.
LineSeqs(n) ==
  IF n = 0 THEN { <<>> }
  ELSE { Append(ls, l) : ls \in LineSeqs(n - 1), l \in LineChoices }

\* The texts an editor can hold: at most MaxLines lines joined by newlines,
\* with or without a final newline.
Texts ==
  UNION { { JoinWith(ls, << NL >>) \o t : ls \in LineSeqs(n), t \in { <<>>, << NL >> } }
          : n \in 0 .. MaxLines }

\* --------------------------------------------------------------- the state
VARIABLES
  originText,   \* useState('') of the original editor
  changedText,  \* useState('') of the changed editor
  diff,         \* the Change[] of the last computation of the memo
  resultText,   \* the memoized result shown in the result view
  clipboard,    \* the system clipboard's text
  toastTitle,   \* the title of the last toast raised ("" when none)
  pc,           \* the session: "origin", "changed", "rendered", "copied"
  fontSize,     \* useState(BASE_FONT_SIZE)
  isExpanded,   \* useState(false)
  diffMode,     \* useState('unified'): "unified" or "split"
  isDark,       \* theme === 'dark'
  scrollPos,    \* SplitDiffView: each pane's scroll position << left, top >>
  scrollEvent,  \* SplitDiffView: whether a 'scroll' event of the pane is pending
  isScrolling,  \* SplitDiffView: the guard of syncScroll
  timers        \* SplitDiffView: the pending setTimeout callbacks of syncScroll

appVars == << originText, changedText, diff, resultText, clipboard, toastTitle, pc >>

uiVars == << fontSize, isExpanded, diffMode, isDark >>

scrollVars == << scrollPos, scrollEvent, isScrolling, timers >>

vars == << originText, changedText, diff, resultText, clipboard, toastTitle, pc,
           fontSize, isExpanded, diffMode, isDark,
           scrollPos, scrollEvent, isScrolling, timers >>

BASE_FONT_SIZE == 14

MIN_FONT_SIZE == 10

MAX_FONT_SIZE == 24

\* The two panes of the split view.
Panes == { "left", "right" }

Other(pane) == IF pane = "left" THEN "right" ELSE "left"

\* The texts, the result, the clipboard and the toast after construction.
AppInit ==
  /\ originText = <<>>
  /\ changedText = <<>>
  /\ diff = <<>>
  /\ resultText = <<>>
  /\ clipboard = <<>>
  /\ toastTitle = ""
  /\ pc = "origin"

\* The header's state after construction; the theme comes from the provider.
UIInit ==
  /\ fontSize = BASE_FONT_SIZE
  /\ isExpanded = FALSE
  /\ diffMode = "unified"
  /\ isDark \in BOOLEAN

\* The split view's effect has run: both panes at the origin, guard clear.
ScrollInit ==
  /\ scrollPos = [p \in Panes |-> << 0, 0 >>]
  /\ scrollEvent = [p \in Panes |-> FALSE]
  /\ isScrolling = FALSE
  /\ timers = 0

Init == AppInit /\ UIInit /\ ScrollInit

\* onBeforeChange of the original editor: setOriginText(value), then the
\* render recomputes the memo (its dependencies changed).
setOriginText(value) ==
  /\ pc = "origin"
  /\ originText' = value
  /\ diff' = DiffOf(value, changedText)
  /\ resultText' = ResultText(value, changedText)
  /\ pc' = "changed"
  /\ UNCHANGED << changedText, clipboard, toastTitle >>
  /\ UNCHANGED << uiVars, scrollVars >>

\* onBeforeChange of the changed editor: setChangedText(value) and re-render.
setChangedText(value) ==
  /\ pc = "changed"
  /\ changedText' = value
  /\ diff' = DiffOf(originText, value)
  /\ resultText' = ResultText(originText, value)
  /\ pc' = "rendered"
  /\ UNCHANGED << originText, clipboard, toastTitle >>
  /\ UNCHANGED << uiVars, scrollVars >>

\* copyToClipboard without the test of line 141: an empty text is fenced and
\* written like any other.
copyToClipboardNoEmptyTest ==
  /\ pc \in { "changed", "rendered" }
  /\ pc' = "copied"
  /\ \/ /\ clipboard' = ClipboardText(resultText)
        /\ toastTitle' = "Copied to clipboard"
     \/ /\ toastTitle' = "Copy failed"
        /\ UNCHANGED clipboard
  /\ UNCHANGED << originText, changedText, diff, resultText >>
  /\ UNCHANGED << uiVars, scrollVars >>

\* copyToClipboard(resultText): an empty text is refused with a toast; the
\* write of the fenced text may be rejected by the browser.
copyToClipboard ==
  /\ pc \in { "changed", "rendered" }
  /\ pc' = "copied"
  /\ \/ /\ resultText = <<>>
        /\ toastTitle' = "Nothing to copy"
        /\ UNCHANGED clipboard
     \/ /\ resultText # <<>>
        /\ clipboard' = ClipboardText(resultText)
        /\ toastTitle' = "Copied to clipboard"
     \/ /\ resultText # <<>>
        /\ toastTitle' = "Copy failed"
        /\ UNCHANGED clipboard
  /\ UNCHANGED << originText, changedText, diff, resultText >>
  /\ UNCHANGED << uiVars, scrollVars >>

Next ==
  \/ \E value \in Texts : setOriginText(value)
  \/ \E value \in Texts : setChangedText(value)
  \/ copyToClipboard

Spec == Init /\ [][Next]_vars

\* ------------------------------------------------------ App: the header
\* increaseFontSize with Math.min forgotten.
increaseFontSizeNoMax ==
  /\ fontSize' = fontSize + 1
  /\ UNCHANGED << isExpanded, diffMode, isDark, appVars, scrollVars >>

\* setFontSize(prev => Math.min(prev + 1, MAX_FONT_SIZE))
increaseFontSize ==
  /\ fontSize' = Min(fontSize + 1, MAX_FONT_SIZE)
  /\ UNCHANGED << isExpanded, diffMode, isDark, appVars, scrollVars >>

\* setFontSize(prev => Math.max(prev - 1, MIN_FONT_SIZE))
decreaseFontSize ==
  /\ fontSize' = Max(fontSize - 1, MIN_FONT_SIZE)
  /\ UNCHANGED << isExpanded, diffMode, isDark, appVars, scrollVars >>

\* setIsExpanded(prev => !prev)
toggleExpand ==
  /\ isExpanded' = ~isExpanded
  /\ UNCHANGED << fontSize, diffMode, isDark, appVars, scrollVars >>

\* setDiffMode(prev => prev === 'unified' ? 'split' : 'unified')
toggleDiffMode ==
  /\ diffMode' = IF diffMode = "unified" THEN "split" ELSE "unified"
  /\ UNCHANGED << fontSize, isExpanded, isDark, appVars, scrollVars >>

\* setTheme(isDark ? 'light' : 'dark')
toggleTheme ==
  /\ isDark' = ~isDark
  /\ UNCHANGED << fontSize, isExpanded, diffMode, appVars, scrollVars >>

NextUI ==
  \/ increaseFontSize
  \/ decreaseFontSize
  \/ toggleExpand
  \/ toggleDiffMode
  \/ toggleTheme

\* The header's controls alone, the editors left empty.
SpecUI == Init /\ [][NextUI]_vars

\* ------------------------------------------- SplitDiffView: scroll sync
ScrollPositions == (0 .. MaxScroll) \X (0 .. MaxScroll)

\* The user scrolls a pane of the split view: the pane moves and CodeMirror
\* will deliver its 'scroll' event.
userScroll(pane, pos) ==
  /\ diffMode = "split"
  /\ pos # scrollPos[pane]
  /\ scrollPos' = [scrollPos EXCEPT ![pane] = pos]
  /\ scrollEvent' = [scrollEvent EXCEPT ![pane] = TRUE]
  /\ UNCHANGED << isScrolling, timers, appVars, uiVars >>

\* leftScrollHandler / rightScrollHandler: syncScroll(source, target) with
\* source the pane whose event is delivered.  With the guard set it returns;
\* else it sets the guard, moves the target to the source's position (the
\* target's own 'scroll' event follows when it moved) and starts the timer.
scrollHandler(pane) ==
  /\ diffMode = "split"
  /\ scrollEvent[pane]
  /\ \/ /\ isScrolling
        /\ scrollEvent' = [scrollEvent EXCEPT ![pane] = FALSE]
        /\ UNCHANGED << scrollPos, isScrolling, timers >>
     \/ /\ ~isScrolling
        /\ isScrolling' = TRUE
        /\ scrollPos' = [scrollPos EXCEPT ![Other(pane)] = scrollPos[pane]]
        /\ scrollEvent' = [scrollEvent EXCEPT
                            ![pane] = FALSE,
                            ![Other(pane)] = @ \/ scrollPos[Other(pane)] # scrollPos[pane]]
        /\ timers' = timers + 1
  /\ UNCHANGED << appVars, uiVars >>

\* setTimeout(() => { isScrolling = false }, 50): a pending timer fires.
timerFires ==
  /\ timers > 0
  /\ isScrolling' = FALSE
  /\ timers' = timers - 1
  /\ UNCHANGED << scrollPos, scrollEvent, appVars, uiVars >>

\* The split view is shown (diffMode is 'split') and its effect has run.
InitScroll ==
  /\ AppInit
  /\ ScrollInit
  /\ fontSize = BASE_FONT_SIZE
  /\ isExpanded = FALSE
  /\ diffMode = "split"
  /\ isDark \in BOOLEAN

NextScroll ==
  \/ \E pane \in Panes, pos \in ScrollPositions : userScroll(pane, pos)
  \/ \E pane \in Panes : scrollHandler(pane)
  \/ timerFires

\* The split view alone: user scrolls, scroll events and the guard's timer in
\* any order.
SpecScroll == InitScroll /\ [][NextScroll]_vars

\* ---------------------------------------------------- vocabulary of claims
\* The line sequence of a text: its pieces between newlines, without the
\* final empty piece of a text that ends in a newline; the empty text has no
\* line.
LinesOf(text) ==
  IF text = <<>> THEN <<>>
  ELSE IF text[Len(text)] = NL THEN DropLast(Split(text)) ELSE Split(text)

\* The display lines of the result: resultText cut at its newlines.
DisplayLines == LinesOf(resultText)

Kind(displayLine) == SubSeq(displayLine, 1, 2)

Content(displayLine) == SubSeq(displayLine, 3, Len(displayLine))

ADDED == << "+", " " >>

REMOVED == << "-", " " >>

UNCHANGEDP == << " ", " " >>

\* The contents, in order, of the display lines whose prefix is in kinds.
ContentsOf(kinds) ==
  LET sel == SelectSeq(DisplayLines, LAMBDA dl : Kind(dl) \in kinds)
  IN [i \in 1 .. Len(sel) |-> Content(sel[i])]

TypeOK ==
  /\ originText \in Texts
  /\ changedText \in Texts
  /\ pc \in { "origin", "changed", "rendered", "copied" }
  /\ \A i \in 1 .. Len(DisplayLines) : Kind(DisplayLines[i]) \in { ADDED, REMOVED, UNCHANGEDP }

\* The line sequences O and C of the two texts.
O == LinesOf(originText)

C == LinesOf(changedText)

\* The prefixes, in order, of the display lines.
Kinds == [i \in 1 .. Len(DisplayLines) |-> Kind(DisplayLines[i])]

RECURSIVE LCSLength(_, _)
\* The length of a longest common subsequence of two line sequences.
LCSLength(xs, ys) ==
  IF xs = <<>> \/ ys = <<>> THEN 0
  ELSE IF Head(xs) = Head(ys) THEN 1 + LCSLength(Tail(xs), Tail(ys))
  ELSE Max(LCSLength(Tail(xs), ys), LCSLength(xs, Tail(ys)))

\* ------------------------------------------------------------------ claims
\* C1: round trip. The display lines prefixed '- ' or '  ', stripped of the
\* prefix and in order, are the original's lines O; those prefixed '+ ' or
\* '  ' are the changed text's lines C.
C1_RoundTrip ==
  /\ ContentsOf({ REMOVED, UNCHANGEDP }) = O
  /\ ContentsOf({ ADDED, UNCHANGEDP }) = C

\* C2: identity. When both texts are the same text A, every display line is
\* an unchanged line and there is exactly one per line of A, in order.
C2_Identity ==
  originText = changedText =>
    /\ \A i \in 1 .. Len(Kinds) : Kinds[i] = UNCHANGEDP
    /\ ContentsOf({ UNCHANGEDP }) = O

\* C3: total replacement. When O and C share no line, the display lines are
\* the |O| lines of O prefixed '- ' followed by the |C| lines of C prefixed
\* '+ ', and nothing else.
C3_TotalReplacement ==
  (\A i \in 1 .. Len(O) : \A j \in 1 .. Len(C) : O[i] # C[j]) =>
    DisplayLines = [i \in 1 .. Len(O) |-> REMOVED \o O[i]]
                   \o [j \in 1 .. Len(C) |-> ADDED \o C[j]]

\* C4: trailing-newline insensitivity. When the two texts have the same
\* lines and differ only in that one of them ends with a final newline, every
\* display line is an unchanged line, one per line.
C4_TrailingNewline ==
  (originText # changedText /\ O = C) =>
    /\ \A i \in 1 .. Len(Kinds) : Kinds[i] = UNCHANGEDP
    /\ ContentsOf({ UNCHANGEDP }) = O

\* C5: minimal edit. The unchanged display lines are as many as a longest
\* common subsequence of O and C has lines, and the '- ' and '+ ' lines are as
\* few as an edit script from O to C can have.
C5_MinimalEdit ==
  LET lcs == LCSLength(O, C)
  IN /\ Len(ContentsOf({ UNCHANGEDP })) = lcs
     /\ Len(ContentsOf({ REMOVED })) + Len(ContentsOf({ ADDED }))
          = (Len(O) - lcs) + (Len(C) - lcs)

\* C6: delete before insert. No '+ ' display line is immediately followed by
\* a '- ' display line.
C6_DeleteBeforeInsert ==
  \A i \in 1 .. Len(Kinds) - 1 : ~(Kinds[i] = ADDED /\ Kinds[i + 1] = REMOVED)

\* C7: empty inputs. With both texts empty the result is the empty string: no
\* display line at all, not a single empty unchanged line.
C7_EmptyInputs ==
  (originText = <<>> /\ changedText = <<>>) =>
    (resultText = <<>> /\ DisplayLines = <<>>)

\* C7's case: both editors were set, to the empty text, and the memo ran.
C7_Witness ==
  pc = "rendered" /\ originText = <<>> /\ changedText = <<>> /\ resultText = <<>>

EndsWithNewline(text) == text # <<>> /\ text[Len(text)] = NL

\* xs with x inserted after its first p elements.
InsertAt(xs, p, x) == SubSeq(xs, 1, p) \o << x >> \o SubSeq(xs, p + 1, Len(xs))

\* big is small with one line inserted between two of its lines, the two
\* texts ending alike (both or neither with a final newline).
OneLineBetween(small, big, smallText, bigText) ==
  /\ Len(small) >= 2
  /\ Len(big) = Len(small) + 1
  /\ EndsWithNewline(smallText) <=> EndsWithNewline(bigText)
  /\ \E p \in 1 .. Len(small) - 1 : big = InsertAt(small, p, big[p + 1])

\* C8: pure insertion and pure deletion. When C is O with one line inserted
\* between two lines, the display lines are the lines of C in order, all
\* unchanged but exactly one '+ ' line, and no '- ' line: the unchanged lines
\* are O.  When C is O with one line between two others deleted, the display
\* lines are the lines of O, all unchanged but exactly one '- ' line, and no
\* '+ ' line.
C8_PureInsertDelete ==
  /\ OneLineBetween(O, C, originText, changedText) =>
       /\ ContentsOf({ ADDED, REMOVED, UNCHANGEDP }) = C
       /\ ContentsOf({ UNCHANGEDP }) = O
       /\ Len(ContentsOf({ ADDED })) = 1
       /\ Len(ContentsOf({ REMOVED })) = 0
  /\ OneLineBetween(C, O, changedText, originText) =>
       /\ ContentsOf({ ADDED, REMOVED, UNCHANGEDP }) = O
       /\ ContentsOf({ UNCHANGEDP }) = C
       /\ Len(ContentsOf({ REMOVED })) = 1
       /\ Len(ContentsOf({ ADDED })) = 0

\* C9: export format. After a successful copy the clipboard holds the opening
\* fence with the tag diff, a newline, the display lines joined by single
\* newlines, a newline and the closing fence, with no blank line before the
\* closing fence; the result text itself holds no fence character.
C9_ExportFormat ==
  /\ toastTitle = "Copied to clipboard" =>
       clipboard = << BACKTICK, BACKTICK, BACKTICK, "d", "i", "f", "f", NL >>
                   \o JoinWith(DisplayLines, << NL >>)
                   \o << NL, BACKTICK, BACKTICK, BACKTICK >>
  /\ \A i \in 1 .. Len(resultText) : resultText[i] # BACKTICK

\* The lines of a hunk: the pieces of its value between newlines, without the
\* final empty piece when the value ends in a newline.
HunkLines(part) ==
  IF part.value # <<>> /\ part.value[Len(part.value)] = NL
  THEN DropLast(Split(part.value))
  ELSE Split(part.value)

HunkPrefix(part) ==
  IF part.added THEN ADDED ELSE IF part.removed THEN REMOVED ELSE UNCHANGEDP

\* The lines of a hunk that the rule of C10 keeps, prefixed.
HunkDisplay(part) ==
  LET ls == HunkLines(part)
      kept == SelectSeq(ls, LAMBDA l : l # <<>> \/ Len(ls) = 1)
  IN [i \in 1 .. Len(kept) |-> HunkPrefix(part) \o kept[i]]

RECURSIVE HunksDisplay(_)
HunksDisplay(parts) ==
  IF parts = <<>> THEN <<>> ELSE HunkDisplay(Head(parts)) \o HunksDisplay(Tail(parts))

\* C10: empty-line rule. The display lines are, hunk after hunk of the
\* differ's result, exactly the hunk's lines that are non-empty or are the
\* only line of their hunk, each with the hunk's prefix: a hunk whose only
\* line is empty yields its bare prefix, and an empty line of a longer hunk
\* yields nothing.
C10_EmptyLineRule == DisplayLines = HunksDisplay(diff)

\* C10's case: the result was rendered from a hunk whose only line is empty
\* (kept as a bare prefix) and a hunk of several lines with an empty one
\* (dropped).
C10_Witness ==
  /\ pc = "rendered"
  /\ \E i \in 1 .. Len(diff) : HunkLines(diff[i]) = << <<>> >>
  /\ \E j \in 1 .. Len(diff) :
       /\ Len(HunkLines(diff[j])) >= 2
       /\ \E k \in 1 .. Len(HunkLines(diff[j])) : HunkLines(diff[j])[k] = <<>>
  /\ \E n \in 1 .. Len(DisplayLines) : Len(DisplayLines[n]) = 2

\* ------------------------------------------------------- supporting facts
\* Neither text has an empty line.
NoBlankLine ==
  /\ \A i \in 1 .. Len(O) : O[i] # <<>>
  /\ \A i \in 1 .. Len(C) : C[i] # <<>>

\* In the differ's result an Added hunk is never immediately followed by a
\* Removed hunk.
HunkOrder == \A i \in 1 .. Len(diff) - 1 : ~(diff[i].added /\ diff[i + 1].removed)

\* Without empty lines the round trip, the identity, the total replacement,
\* the display order and the single insertion or deletion hold.
NoBlankLineFacts ==
  NoBlankLine =>
    /\ C1_RoundTrip
    /\ C2_Identity
    /\ C3_TotalReplacement
    /\ C6_DeleteBeforeInsert
    /\ C8_PureInsertDelete

\* A step in which copyToClipboard ran (the session moves to "copied").
CopyStep == pc # "copied" /\ pc' = "copied"

\* C11: copy of an empty result. Whenever copyToClipboard runs with an empty
\* result text the clipboard keeps its content and the toast 'Nothing to
\* copy' is raised; the clipboard is written only when the result text is
\* non-empty; a copy of a non-empty text ends with the toast 'Copied to
\* clipboard' or, the write having failed and the clipboard kept, with the
\* toast 'Copy failed'.
C11_EmptyCopyRejected ==
  [][CopyStep =>
       /\ resultText = <<>> =>
            (clipboard' = clipboard /\ toastTitle' = "Nothing to copy")
       /\ clipboard' # clipboard => resultText # <<>>
       /\ resultText # <<>> =>
            \/ toastTitle' = "Copied to clipboard"
            \/ toastTitle' = "Copy failed" /\ clipboard' = clipboard]_vars

\* C11's case: a copy was asked with an empty result and was refused.
C11_Witness ==
  /\ pc = "copied"
  /\ resultText = <<>>
  /\ toastTitle = "Nothing to copy"
  /\ clipboard = <<>>

\* C12: font-size bounds. From the base size 14 the font size stays within
\* [10, 24]; an increase adds exactly 1 below 24 and changes nothing at 24, a
\* decrease subtracts exactly 1 above 10 and changes nothing at 10.
C12_FontSizeBounds ==
  /\ [](fontSize \in MIN_FONT_SIZE .. MAX_FONT_SIZE)
  /\ [][/\ increaseFontSize =>
             fontSize' = IF fontSize < MAX_FONT_SIZE THEN fontSize + 1 ELSE fontSize
        /\ decreaseFontSize =>
             fontSize' = IF fontSize > MIN_FONT_SIZE THEN fontSize - 1 ELSE fontSize
        /\ fontSize' - fontSize \in { -1, 0, 1 }]_vars

\* C12's case: the size was raised from 14 up to the upper bound.
C12_Witness == fontSize = MAX_FONT_SIZE

\* No scroll event is pending and the guard is clear.
ScrollQuiet ==
  /\ \A p \in Panes : ~scrollEvent[p]
  /\ ~isScrolling

\* C13: split-view scroll synchronisation. (a) A scroll handler calls scrollTo
\* on the other pane (and starts its timer) only with the guard clear; (b)
\* whenever no scroll event is pending and the guard is clear, both panes are
\* at the same scroll position.
C13_ScrollSync ==
  /\ [][timers' > timers => ~isScrolling]_vars
  /\ [](ScrollQuiet => scrollPos["left"] = scrollPos["right"])

\* Part (a) of C13 alone, and what it rests on: at most one timer is pending,
\* and one is pending exactly while the guard is set.
ScrollGuardFacts ==
  /\ [][timers' > timers => ~isScrolling]_vars
  /\ [](timers <= 1 /\ (isScrolling <=> timers = 1))
====
